---- MODULE Spec2Model ----
(***************************************************************************)
(* The liquidity scoring engine of app.py: the observation store all_data, *)
(* the point-in-time scorer calculate_liquidity_score, the history builder *)
(* calculate_liquidity_score_history and the Dash callback that scores the *)
(* period chosen in the two dropdowns.                                     *)
(*                                                                         *)
(* Numbers.  Raw values are small naturals.  A scaled value is an exact    *)
(* rational <<n, d>> with d > 0, kept in lowest terms.  round(x, 1) yields *)
(* a number with one decimal; the model holds it as the integer count of   *)
(* tenths (66.7 is 667, 100.0 is 1000).  Weights are held in hundredths    *)
(* (0.30 is 30).  A date is the integer yyyymmdd, so integer order is      *)
(* calendar order.  Python's None is the empty tuple, a present value v    *)
(* is <<v>>.                                                               *)
(***************************************************************************)
EXTENDS Integers, Sequences, FiniteSets, TLC

----------------------------------------------------------------------------
(* Bounds of the model *)

\* number of series of SeriesOrder that the sparse stores draw rows from
NumSeries == 3
\* number of calendar years with observations, from 2023 on
NumYears == 2
\* observations fall in months 1..MaxMonth
MaxMonth == 3
\* observations fall on days 1..MaxDay of a month
MaxDay == 2
\* raw values are 0..MaxVal
MaxVal == 3
\* a sparse store has at most MaxObs rows
MaxObs == 2
\* a deep store has DeepObs rows of one series
DeepObs == 3
\* calls of the callback in one run
MaxCalls == 1

\* the last month the month dropdown offers
MonthsInYear == 12

----------------------------------------------------------------------------
(* Static configuration *)

RRP == "Reverse Repo (RRP)"
M2 == "M2 Money Supply"
FEDFUNDS == "Federal Funds Rate"
RESERVES == "Bank Reserves"
DGS3MO == "3-Month Treasury Rate"
DEXUSEU == "Dollar Index (EUR/USD)"
TGA == "TGA (Treasury General Account)"
BUSLOANS == "C&I Loans"
HYSPREAD == "High-Yield Spread"

\* the display names of the dict indicators, the values of the Series column
indicators == {RRP, M2, FEDFUNDS, RESERVES, DGS3MO, DEXUSEU, TGA, BUSLOANS, HYSPREAD}

\* a faulty variant: a weight for a series that has none
indicator_weights_typo == (RRP :> 30) @@ (RESERVES :> 25) @@ (M2 :> 20)
                          @@ (FEDFUNDS :> 15) @@ (DGS3MO :> 7) @@ (DEXUSEU :> 3)
                          @@ (TGA :> 10)

\* a faulty variant: 0.02 for 0.20
indicator_weights_slip == (RRP :> 30) @@ (RESERVES :> 25) @@ (M2 :> 2)
                          @@ (FEDFUNDS :> 15) @@ (DGS3MO :> 7) @@ (DEXUSEU :> 3)

\* weights in hundredths
indicator_weights == (RRP :> 30) @@ (RESERVES :> 25) @@ (M2 :> 20)
                     @@ (FEDFUNDS :> 15) @@ (DGS3MO :> 7) @@ (DEXUSEU :> 3)

\* the list literal of calculate_liquidity_score
InvertedInScore == {RRP, FEDFUNDS, DGS3MO, DEXUSEU}

\* the list literal of calculate_liquidity_score_history
InvertedInHistory == {RRP, FEDFUNDS, DGS3MO, DEXUSEU}

----------------------------------------------------------------------------
(* Python values *)

None == <<>>

Some(v) == <<v>>

\* the truth value Python gives an int or None in `if x:`
Truthy(x) == x # None /\ x[1] # 0

----------------------------------------------------------------------------
(* Exact rationals *)

RECURSIVE Gcd(_, _)
Gcd(a, b) == IF b = 0 THEN a ELSE Gcd(b, a % b)

Abs(n) == IF n < 0 THEN -n ELSE n

Rat(n, d) == LET g == Gcd(Abs(n), d) IN <<n \div g, d \div g>>

RatAdd(p, q) == Rat(p[1] * q[2] + q[1] * p[2], p[2] * q[2])

RatSub(p, q) == Rat(p[1] * q[2] - q[1] * p[2], p[2] * q[2])

RatMul(p, q) == Rat(p[1] * q[1], p[2] * q[2])

RatLeq(p, q) == p[1] * q[2] <= q[1] * p[2]

Zero == Rat(0, 1)

One == Rat(1, 1)

\* round(x, 1): the nearest number with one decimal, a tie going to the even
\* last digit, as a count of tenths
Round1(x) ==
    LET n == 10 * x[1]
        d == x[2]
        lo == n \div d
        twice == 2 * (n - lo * d)
    IN  IF twice < d THEN lo
        ELSE IF twice > d THEN lo + 1
        ELSE IF lo % 2 = 0 THEN lo ELSE lo + 1

----------------------------------------------------------------------------
(* Dates and frames *)

MkDate(y, m, d) == y * 10000 + m * 100 + d

\* Date.dt.year
DtYear(date) == date \div 10000

\* Date.dt.month
DtMonth(date) == (date \div 100) % 100

SetMax(S) == CHOOSE x \in S : \A y \in S : y <= x

SetMin(S) == CHOOSE x \in S : \A y \in S : x <= y

\* df[df["Series"] == series_name]
OfSeries(df, series_name) == {r \in df : r.Series = series_name}

\* df["Series"].unique()
SeriesUnique(df) == {r.Series : r \in df}

\* sort_values("Date"): the rows as a sequence in ascending date order
RECURSIVE SortValues(_)
SortValues(rows) ==
    IF rows = {} THEN <<>>
    ELSE LET first == CHOOSE r \in rows : \A q \in rows : r.Date <= q.Date
         IN  <<first>> \o SortValues(rows \ {first})

\* sorted(list of dates)
RECURSIVE Sorted(_)
Sorted(S) ==
    IF S = {} THEN <<>>
    ELSE LET first == SetMin(S) IN <<first>> \o Sorted(S \ {first})

SeqToSet(s) == {s[i] : i \in DOMAIN s}

----------------------------------------------------------------------------
(* MinMaxScaler *)

\* scaler.fit(values): data_min_ and data_max_ of the column
Fit(values) == [data_min |-> SetMin(SeqToSet(values)), data_max |-> SetMax(SeqToSet(values))]

\* a faulty variant: transform without the shift by data_min_
TransformNoShift(scaler, v) ==
    LET data_range == scaler.data_max - scaler.data_min
        divisor == IF data_range = 0 THEN 1 ELSE data_range
    IN  Rat(v, divisor)

\* a faulty variant: a constant column scaled to 1
TransformConstantOne(scaler, v) ==
    LET data_range == scaler.data_max - scaler.data_min
    IN  IF data_range = 0 THEN One ELSE Rat(v - scaler.data_min, data_range)

\* scaler.transform: v * scale_ + min_, where scale_ = 1 / data_range, a zero
\* data_range being replaced by 1, and min_ = 0 - data_min_ * scale_
Transform(scaler, v) ==
    LET data_range == scaler.data_max - scaler.data_min
        divisor == IF data_range = 0 THEN 1 ELSE data_range
    IN  Rat(v - scaler.data_min, divisor)

\* scaler.fit_transform(values)
FitTransform(values) ==
    LET scaler == Fit(values) IN [i \in DOMAIN values |-> Transform(scaler, values[i])]

----------------------------------------------------------------------------
(* calculate_liquidity_score *)

\* a faulty variant: the fallback takes the year's rows of any month
DfPeriodAnyMonth(df_sub, target_year, target_month) ==
    LET rows == SeqToSet(df_sub)
        in_year == {r \in rows : DtYear(r.Date) = target_year[1]}
    IN  IF Truthy(target_month)
        THEN LET in_month == {r \in in_year : DtMonth(r.Date) = target_month[1]}
             IN  IF in_month # {} THEN in_month ELSE in_year
        ELSE in_year

\* a faulty variant: no fallback to the earlier months of the year
DfPeriodExactOnly(df_sub, target_year, target_month) ==
    LET rows == SeqToSet(df_sub)
        in_year == {r \in rows : DtYear(r.Date) = target_year[1]}
    IN  IF Truthy(target_month)
        THEN {r \in in_year : DtMonth(r.Date) = target_month[1]}
        ELSE in_year

\* the rows of df_sub in the requested period; the series is skipped when empty
DfPeriod(df_sub, target_year, target_month) ==
    LET rows == SeqToSet(df_sub)
        in_year == {r \in rows : DtYear(r.Date) = target_year[1]}
    IN  IF Truthy(target_month)
        THEN LET in_month == {r \in in_year : DtMonth(r.Date) = target_month[1]}
             IN  IF in_month # {} THEN in_month
                 ELSE {r \in in_year : DtMonth(r.Date) <= target_month[1]}
        ELSE in_year

\* df_sub.index.get_loc(df_sub[df_sub["Date"] == target_date].index[0])
TargetPosition(df_sub, target_date) ==
    SetMin({i \in DOMAIN df_sub : df_sub[i].Date = target_date})

\* 1 - latest for the series of the list literal
OrientInScore(series_name, latest) ==
    IF series_name \in InvertedInScore THEN RatSub(One, latest) ELSE latest

\* one turn of the loop over the series: None when the turn ends in `continue`,
\* else the value stored in score_dict
LatestOf(df, series_name, target_year, target_month) ==
    LET df_sub == SortValues(OfSeries(df, series_name))
        scaled == FitTransform([i \in DOMAIN df_sub |-> df_sub[i].Value])
    IN  IF Truthy(target_year)
        THEN LET df_period == DfPeriod(df_sub, target_year, target_month)
             IN  IF df_period = {} THEN None
                 ELSE LET target_date == SetMax({r.Date : r \in df_period})
                          target_position == TargetPosition(df_sub, target_date)
                      IN  IF target_position <= Len(scaled)
                          THEN Some(OrientInScore(series_name, scaled[target_position]))
                          ELSE None
        ELSE Some(OrientInScore(series_name, scaled[Len(scaled)]))

\* score_dict when the loop over the series has ended
ScoreDict(df, target_year, target_month) ==
    LET latest == [s \in SeriesUnique(df) |-> LatestOf(df, s, target_year, target_month)]
        kept == {s \in DOMAIN latest : latest[s] # None}
    IN  [s \in kept |-> latest[s][1]]

\* sum(score_dict[series] * indicator_weights[series] for series in
\*     score_dict.keys() if series in indicator_weights)
RECURSIVE SumOver(_, _)
SumOver(dict, keys) ==
    IF keys = {} THEN Zero
    ELSE LET series == CHOOSE k \in keys : TRUE
         IN  RatAdd(RatMul(dict[series], Rat(indicator_weights[series], 100)),
                    SumOver(dict, keys \ {series}))

\* a faulty variant: a weighted mean, the sum divided by the weight that contributed
WeightedScoreRenormalized(dict) ==
    LET keys == DOMAIN dict \cap DOMAIN indicator_weights
        total == SumOver([s \in keys |-> One], keys)
    IN  IF total = Zero THEN Zero
        ELSE LET sum == SumOver(dict, keys)
             IN  Rat(sum[1] * total[2], sum[2] * total[1])

WeightedScore(dict) == SumOver(dict, DOMAIN dict \cap DOMAIN indicator_weights)

\* round(weighted_score * 100, 1)
Rounded(weighted_score) == Round1(RatMul(weighted_score, Rat(100, 1)))

calculate_liquidity_score(df, target_year, target_month) ==
    Rounded(WeightedScore(ScoreDict(df, target_year, target_month)))

----------------------------------------------------------------------------
(* calculate_liquidity_score_history *)

\* the scaler of every series, fitted on the whole column
ScalerDict(df) ==
    [s \in SeriesUnique(df) |->
        LET series_data == SortValues(OfSeries(df, s))
        IN  Fit([i \in DOMAIN series_data |-> series_data[i].Value])]

\* a faulty variant: the groups are keyed by the month alone
MonthlyDatesByMonth(df) ==
    LET groups == {DtMonth(r.Date) : r \in df}
    IN  Sorted({SetMax({r.Date : r \in {q \in df : DtMonth(q.Date) = g}}) : g \in groups})

\* df.groupby([year, month])["Date"].max().tolist(), then sorted
MonthlyDates(df) ==
    LET groups == {<<DtYear(r.Date), DtMonth(r.Date)>> : r \in df}
    IN  Sorted({SetMax({r.Date : r \in {q \in df : <<DtYear(q.Date), DtMonth(q.Date)>> = g}})
                : g \in groups})

\* df[df["Date"] <= date]
DateData(df, date) == {r \in df : r.Date <= date}

\* 1 - scaled_value for the series of the list literal
OrientInHistory(series_name, scaled_value) ==
    IF series_name \in InvertedInHistory THEN RatSub(One, scaled_value) ELSE scaled_value

\* series_data.iloc[-1]["Value"]
LatestValue(date_data, series_name) ==
    LET series_data == SortValues(OfSeries(date_data, series_name))
    IN  series_data[Len(series_data)].Value

\* a faulty variant: the scalers fitted again on the rows up to `date`
HistoryScoreDictRefit(df, scalers, date) ==
    LET date_data == DateData(df, date)
        refit == ScalerDict(date_data)
        kept == {s \in SeriesUnique(df) : OfSeries(date_data, s) # {} /\ s \in DOMAIN scalers}
    IN  [s \in kept |-> OrientInHistory(s, Transform(refit[s], LatestValue(date_data, s)))]

\* score_dict of the loop turn of `date`
HistoryScoreDict(df, scalers, date) ==
    LET date_data == DateData(df, date)
        kept == {s \in SeriesUnique(df) : OfSeries(date_data, s) # {} /\ s \in DOMAIN scalers}
    IN  [s \in kept |-> OrientInHistory(s, Transform(scalers[s], LatestValue(date_data, s)))]

----------------------------------------------------------------------------
(* The observation stores the model starts from *)

Years == 2023 .. (2022 + NumYears)

Dates == {MkDate(y, m, d) : y \in Years, m \in 1 .. MaxMonth, d \in 1 .. MaxDay}

Values == 0 .. MaxVal

\* the series in the order the sparse stores take them: one inverted and
\* weighted, one weighted, one without weight, then the others
SeriesOrder == <<RRP, M2, TGA, FEDFUNDS, RESERVES, DGS3MO, DEXUSEU, BUSLOANS, HYSPREAD>>

Row(s, date, v) == [Series |-> s, Date |-> date, Value |-> v]

\* the stores of at most k of the given rows; a series has one observation per date
RECURSIVE StoresUpTo(_, _)
StoresUpTo(rows, k) ==
    IF k = 0 THEN {{}}
    ELSE LET prev == StoresUpTo(rows, k - 1)
         IN  prev \cup UNION {{S \cup {r} :
                                  r \in {q \in rows :
                                           \A p \in S : ~(p.Series = q.Series /\ p.Date = q.Date)}}
                               : S \in prev}

\* at most MaxObs rows of any dates, each at the least or the greatest value
SparseStores ==
    StoresUpTo({Row(SeriesOrder[k], date, v) :
                   k \in 1 .. NumSeries, date \in Dates, v \in {0, MaxVal}}, MaxObs) \ {{}}

\* MaxObs + 1 rows of any dates, all of value 0
DatedStores ==
    {S \in StoresUpTo({Row(SeriesOrder[k], date, 0) : k \in 1 .. NumSeries, date \in Dates},
                      MaxObs + 1) : Cardinality(S) = MaxObs + 1}

FirstDate == SetMin(Dates)

LastDate == SetMax(Dates)

\* one series observed on the first day of DeepObs months, any values
RECURSIVE DeepSeries(_, _, _)
DeepSeries(s, days, k) ==
    IF k = 0 THEN {{}}
    ELSE UNION {{S \cup {Row(s, date, v)} : v \in Values,
                                           S \in DeepSeries(s, {e \in days : e < date}, k - 1)}
                : date \in days}

DeepStores ==
    UNION {DeepSeries(SeriesOrder[k], {MkDate(y, m, 1) : y \in Years, m \in 1 .. MaxMonth}, DeepObs)
           : k \in 1 .. NumSeries}

\* every weighted series observed on the first and on the last date, rising
\* or falling; a series without weight absent or rising
Shapes == {<<0, MaxVal>>, <<MaxVal, 0>>}

ShapeRows(s, shape) ==
    IF shape = None THEN {}
    ELSE {Row(s, FirstDate, shape[1]), Row(s, LastDate, shape[2])}

FullStores ==
    {UNION {ShapeRows(s, f[s]) : s \in indicators} :
        f \in {g \in [indicators -> Shapes \cup {None}] :
                 /\ \A s \in DOMAIN indicator_weights : g[s] # None
                 /\ \A s \in indicators \ DOMAIN indicator_weights :
                        g[s] \in {None, <<0, MaxVal>>}}}

\* one series rising or falling between the first days of two months, beside one
\* observation of another series on the first day of any month
PairedStores ==
    LET days == {MkDate(y, m, 1) : y \in Years, m \in 1 .. MaxMonth}
    IN  {{Row(SeriesOrder[p[1]], p[3], p[6][1]), Row(SeriesOrder[p[1]], p[4], p[6][2]),
          Row(SeriesOrder[p[2]], p[5], 0)} :
            p \in {q \in (1 .. NumSeries) \X (1 .. NumSeries) \X days \X days \X days \X Shapes :
                     q[1] # q[2] /\ q[3] < q[4]}}

Stores == SparseStores \cup DatedStores \cup DeepStores \cup FullStores \cup PairedStores

----------------------------------------------------------------------------
(* State *)

VARIABLES
    all_data,                 \* the rows of the module-level frame all_data
    pc,                       \* how far the module has run
    liquidity_score,          \* the module-level score
    scaler_dict,              \* history builder: the fitted scalers
    monthly_dates,            \* history builder: the dates of the loop
    i,                        \* history builder: turns of the loop completed
    hist_score_dict,          \* history builder: score_dict of the last turn
    score_history,            \* history builder: the list being built
    liquidity_score_history,  \* the module-level history frame
    year_dropdown,            \* value of year-dropdown
    month_dropdown,           \* value of month-dropdown
    score,                    \* update_liquidity_score: the score of the last call
    score_dict,               \* the scorer's score_dict in that call
    calls,                    \* calls of update_liquidity_score so far
    latest_point,             \* update_liquidity_score_chart: the marked entry
    charts                    \* calls of update_liquidity_score_chart so far

vars == <<all_data, pc, liquidity_score, scaler_dict, monthly_dates, i, hist_score_dict,
          score_history, liquidity_score_history, year_dropdown, month_dropdown, score,
          score_dict, calls, latest_point, charts>>

hist_vars == <<scaler_dict, monthly_dates, i, hist_score_dict, score_history>>

ui_vars == <<year_dropdown, month_dropdown, score, score_dict, calls, latest_point, charts>>

Init ==
    /\ all_data \in Stores
    /\ pc = "loaded"
    /\ liquidity_score = None
    /\ scaler_dict = <<>>
    /\ monthly_dates = <<>>
    /\ i = 0
    /\ hist_score_dict = <<>>
    /\ score_history = <<>>
    /\ liquidity_score_history = None
    /\ year_dropdown = None
    /\ month_dropdown = None
    /\ score = None
    /\ score_dict = <<>>
    /\ calls = 0
    /\ latest_point = None
    /\ charts = 0

\* liquidity_score = calculate_liquidity_score(all_data)
CurrentScore ==
    /\ pc = "loaded"
    /\ liquidity_score' = Some(calculate_liquidity_score(all_data, None, None))
    /\ pc' = "scored"
    /\ UNCHANGED <<all_data, hist_vars, liquidity_score_history, ui_vars>>

\* calculate_liquidity_score_history up to the loop
HistoryBegin ==
    /\ pc = "scored"
    /\ scaler_dict' = ScalerDict(all_data)
    /\ monthly_dates' = MonthlyDates(all_data)
    /\ i' = 0
    /\ score_history' = <<>>
    /\ pc' = "history"
    /\ UNCHANGED <<all_data, liquidity_score, hist_score_dict, liquidity_score_history, ui_vars>>

\* one turn of the loop over monthly_dates
HistoryStep ==
    /\ pc = "history"
    /\ i < Len(monthly_dates)
    /\ LET date == monthly_dates[i + 1]
           dict == HistoryScoreDict(all_data, scaler_dict, date)
       IN  /\ hist_score_dict' = dict
           /\ score_history' =
                 IF DateData(all_data, date) # {} /\ DOMAIN dict # {}
                 THEN Append(score_history,
                             [Date |-> date, Score |-> Rounded(WeightedScore(dict))])
                 ELSE score_history
    /\ i' = i + 1
    /\ UNCHANGED <<all_data, pc, liquidity_score, scaler_dict, monthly_dates,
                   liquidity_score_history, ui_vars>>

\* current_year, current_month: the dropdowns' first values
current_year == SetMax({DtYear(r.Date) : r \in all_data})

current_month == SetMax({DtMonth(r.Date) : r \in {q \in all_data : DtYear(q.Date) = current_year}})

\* the loop has ended: the frame is returned and the layout is built
HistoryEnd ==
    /\ pc = "history"
    /\ i = Len(monthly_dates)
    /\ liquidity_score_history' = Some(score_history)
    /\ year_dropdown' = Some(current_year)
    /\ month_dropdown' = Some(current_month)
    /\ pc' = "serving"
    /\ UNCHANGED <<all_data, liquidity_score, hist_vars, score, score_dict, calls,
                   latest_point, charts>>

\* the values a request can carry for the two inputs
YearChoices == {None} \cup {Some(y) : y \in Years}

MonthChoices == {None} \cup {Some(m) : m \in (-1 .. MaxMonth) \cup {MonthsInYear + 1}}

\* update_liquidity_score(selected_year, selected_month), fired with the values
\* of the two dropdowns: score = calculate_liquidity_score(all_data, ...)
update_liquidity_score ==
    /\ pc = "serving"
    /\ calls < MaxCalls
    /\ \E selected_year \in YearChoices, selected_month \in MonthChoices :
          LET dict == ScoreDict(all_data, selected_year, selected_month)
          IN  /\ year_dropdown' = selected_year
              /\ month_dropdown' = selected_month
              /\ score_dict' = dict
              /\ score' = Some(Rounded(WeightedScore(dict)))
    /\ calls' = calls + 1
    /\ UNCHANGED <<all_data, pc, liquidity_score, hist_vars, liquidity_score_history,
                   latest_point, charts>>

\* the entries of the history frame in the selected month of the selected year;
\* if there is none, those of that year in a month at or before it
TargetData(history, selected_year, selected_month) ==
    LET in_month == SelectSeq(history,
                              LAMBDA e : /\ DtYear(e.Date) = selected_year
                                         /\ DtMonth(e.Date) = selected_month)
    IN  IF in_month = <<>>
        THEN SelectSeq(history,
                       LAMBDA e : /\ DtYear(e.Date) = selected_year
                                  /\ DtMonth(e.Date) <= selected_month)
        ELSE in_month

\* update_liquidity_score_chart(selected_year, selected_month), fired with the
\* values of the two dropdowns of the request update_liquidity_score answered:
\* the entry of the history that gets the marker, None when none is drawn
update_liquidity_score_chart ==
    /\ pc = "serving"
    /\ charts < calls
    /\ latest_point' =
          IF Truthy(year_dropdown) /\ Truthy(month_dropdown)
          THEN LET target_data == TargetData(liquidity_score_history[1],
                                             year_dropdown[1], month_dropdown[1])
               IN  IF target_data # <<>> THEN Some(target_data[Len(target_data)]) ELSE None
          ELSE None
    /\ charts' = charts + 1
    /\ UNCHANGED <<all_data, pc, liquidity_score, hist_vars, liquidity_score_history,
                   year_dropdown, month_dropdown, score, score_dict, calls>>

Next ==
    \/ CurrentScore
    \/ HistoryBegin
    \/ HistoryStep
    \/ HistoryEnd
    \/ update_liquidity_score
    \/ update_liquidity_score_chart

Spec == Init /\ [][Next]_vars

----------------------------------------------------------------------------
(* The terms the claims are stated in *)

\* the observations of a series
ClaimObs(s) == {r \in all_data : r.Series = s}

\* the latest of a non-empty set of observations
ClaimLatest(rows) == CHOOSE r \in rows : \A q \in rows : q.Date <= r.Date

\* (v - min) / (max - min), min and max over the whole series; 0 when max = min
ClaimScaled(s, v) ==
    LET lo == SetMin({r.Value : r \in ClaimObs(s)})
        hi == SetMax({r.Value : r \in ClaimObs(s)})
    IN  IF hi = lo THEN Zero ELSE Rat(v - lo, hi - lo)

\* the series for which a higher value means less liquidity
ClaimInverted == {RRP, FEDFUNDS, DGS3MO, DEXUSEU}

ClaimOriented(s, x) == IF s \in ClaimInverted THEN RatSub(One, x) ELSE x

\* the series that carry a weight
ClaimWeighted == {RRP, RESERVES, M2, FEDFUNDS, DGS3MO, DEXUSEU}

\* a score, in tenths, within [0, 100]
ClaimInRange(tenths) == 0 <= tenths /\ tenths <= 1000

\* a call of the scorer by the callback has returned
Called == pc = "serving" /\ calls > 0

\* the observation the scorer is to use for series s in a request with a year
\* and a month: the latest one of that month, else the latest one of that year
\* in a month at or before it; {} when there is none
ClaimMonthChoice(s, y, m) ==
    LET exact == {r \in ClaimObs(s) : DtYear(r.Date) = y /\ DtMonth(r.Date) = m}
        before == {r \in ClaimObs(s) : DtYear(r.Date) = y /\ DtMonth(r.Date) <= m}
    IN  IF exact # {} THEN {ClaimLatest(exact)}
        ELSE IF before # {} THEN {ClaimLatest(before)}
        ELSE {}

\* the observation the scorer is to use in a request with a year only
ClaimYearChoice(s, y) ==
    LET in_year == {r \in ClaimObs(s) : DtYear(r.Date) = y}
    IN  IF in_year # {} THEN {ClaimLatest(in_year)} ELSE {}

\* score_dict holds exactly the series with a chosen observation, each with the
\* oriented scaled value of that observation
ClaimUses(dict, choice) ==
    /\ DOMAIN dict = {s \in SeriesUnique(all_data) : choice[s] # {}}
    /\ \A s \in DOMAIN dict :
          \A r \in choice[s] : dict[s] = ClaimOriented(s, ClaimScaled(s, r.Value))

----------------------------------------------------------------------------
(* C1 *)

\* C1: the value returned by calculate_liquidity_score, for every store and
\* every request (no year, a year, a year and a month), lies in [0, 100], and
\* so does every Score of the sequence calculate_liquidity_score_history builds.
C1_ScoreInRange ==
    /\ liquidity_score # None => ClaimInRange(liquidity_score[1])
    /\ score # None => ClaimInRange(score[1])
    /\ \A k \in DOMAIN score_history : ClaimInRange(score_history[k].Score)
    /\ liquidity_score_history # None =>
          \A k \in DOMAIN liquidity_score_history[1] :
              ClaimInRange(liquidity_score_history[1][k].Score)

\* a request with a year and a month scored 100.0, and the history holds an
\* entry of 0.0 and an entry of 100.0
C1_Witness ==
    /\ Called
    /\ Truthy(year_dropdown) /\ Truthy(month_dropdown)
    /\ score = Some(1000)
    /\ \E k, l \in DOMAIN liquidity_score_history[1] :
          /\ liquidity_score_history[1][k].Score = 0
          /\ liquidity_score_history[1][l].Score = 1000

----------------------------------------------------------------------------
(* C2 *)

\* C2: with a year and a month, the scorer uses for every series the latest
\* observation dated in that month of that year; if there is none, the latest
\* observation of that year whose month is at or before the requested month;
\* if there is none either the series is skipped, and no observation of another
\* year is ever used.  With a year only it uses the latest observation of that
\* year, else skips the series.  (A month of 0 is no month to Python: see C7.)
C2_PeriodSelection ==
    Called /\ Truthy(year_dropdown) =>
        LET y == year_dropdown[1]
        IN  /\ Truthy(month_dropdown) =>
                 ClaimUses(score_dict,
                           [s \in indicators |-> ClaimMonthChoice(s, y, month_dropdown[1])])
            /\ month_dropdown = None =>
                 ClaimUses(score_dict, [s \in indicators |-> ClaimYearChoice(s, y)])
            /\ \A s \in DOMAIN score_dict : \E r \in ClaimObs(s) : DtYear(r.Date) = y

\* the month asked for has no observation of some series, which has one in an
\* earlier month and one in a later month of that year and one in another year:
\* the earlier month's value is used, and it differs from the others'
C2_Witness ==
    /\ Called
    /\ Truthy(year_dropdown) /\ Truthy(month_dropdown)
    /\ \E s \in DOMAIN score_dict :
          \E a, b, c \in ClaimObs(s) :
              /\ DtYear(a.Date) = year_dropdown[1] /\ DtMonth(a.Date) < month_dropdown[1]
              /\ DtYear(b.Date) = year_dropdown[1] /\ DtMonth(b.Date) > month_dropdown[1]
              /\ DtYear(c.Date) # year_dropdown[1]
              /\ ClaimMonthChoice(s, year_dropdown[1], month_dropdown[1]) = {a}
              /\ ClaimScaled(s, a.Value) # ClaimScaled(s, b.Value)
              /\ ClaimScaled(s, a.Value) # ClaimScaled(s, c.Value)

----------------------------------------------------------------------------
(* C3 *)

\* C3: when no indicator contributes a value to a point-in-time score, the
\* scorer returns an outcome that tells "insufficient data" apart, never the
\* numeric score 0.
C3_NeverNumericZero ==
    Called /\ DOMAIN score_dict = {} => score # Some(0)

----------------------------------------------------------------------------
(* C4 *)

\* the stores that differ from all_data in the value of one observation of a
\* series without weight
ClaimUnweightedVariants ==
    {(all_data \ {r}) \cup {[r EXCEPT !.Value = v]} :
        r \in {q \in all_data : q.Series \notin ClaimWeighted}, v \in Values}

\* C4: a series without weight never affects the score: for every request, a
\* store that differs only in the value of an observation of such a series
\* gives the same calculate_liquidity_score result, also when the value is at the
\* end of its range.
C4_UnweightedNeverCounts ==
    Called =>
        \A alt \in ClaimUnweightedVariants :
            calculate_liquidity_score(alt, year_dropdown, month_dropdown) = score[1]

\* a series without weight was used at the greatest value of its range, beside
\* weighted series that made the score positive
C4_Witness ==
    /\ Called
    /\ score[1] > 0
    /\ \E s \in DOMAIN score_dict \ ClaimWeighted : score_dict[s] = One
    /\ ClaimUnweightedVariants # {}

----------------------------------------------------------------------------
(* C5 *)

ClaimSameMonth(a, b) == DtYear(a) = DtYear(b) /\ DtMonth(a) = DtMonth(b)

\* the latest date of every calendar month in which any series has an observation
ClaimMonthEnds ==
    LET all_dates == {r.Date : r \in all_data}
    IN  {d \in all_dates : \A e \in all_dates : ClaimSameMonth(d, e) => e <= d}

\* C5: the dates of the sequence calculate_liquidity_score_history returns are
\* exactly the greatest observation dates of each (year, month) over all series
\* together: one entry for every month with an observation, no month twice, none
\* left out, in strictly increasing date order.
C5_HistoryDates ==
    liquidity_score_history # None =>
        LET h == liquidity_score_history[1]
        IN  /\ {h[k].Date : k \in DOMAIN h} = ClaimMonthEnds
            /\ \A k, l \in DOMAIN h : k < l => h[k].Date < h[l].Date
            /\ \A k, l \in DOMAIN h : k # l => ~ClaimSameMonth(h[k].Date, h[l].Date)
            /\ Len(h) = Cardinality({<<DtYear(r.Date), DtMonth(r.Date)>> : r \in all_data})

\* two series have observations on different days of one month, the earlier day
\* is not a date of the history, and the history spans a second month
C5_Witness ==
    /\ liquidity_score_history # None
    /\ Len(liquidity_score_history[1]) >= 2
    /\ \E r, q \in all_data :
          /\ r.Series # q.Series
          /\ ClaimSameMonth(r.Date, q.Date)
          /\ r.Date < q.Date
          /\ \E k \in DOMAIN liquidity_score_history[1] :
                liquidity_score_history[1][k].Date = q.Date

----------------------------------------------------------------------------
(* C6 *)

\* a turn of the history builder's loop has ended; its date
TurnDone == pc = "history" /\ i > 0

TurnDate == monthly_dates[i]

\* the observations of s dated at or before d, by comparison of the full date
ClaimUpTo(s, d) == {r \in ClaimObs(s) : r.Date <= d}

\* the weights, in hundredths
ClaimWeight ==
    (RRP :> 30) @@ (RESERVES :> 25) @@ (M2 :> 20) @@ (FEDFUNDS :> 15) @@ (DGS3MO :> 7)
    @@ (DEXUSEU :> 3)

ClaimTerm(dict, s) ==
    IF s \in DOMAIN dict THEN RatMul(dict[s], Rat(ClaimWeight[s], 100)) ELSE Zero

\* the weighted sum over the weighted series that contributed, divided by nothing
ClaimWeightedSum(dict) ==
    RatAdd(ClaimTerm(dict, RRP),
    RatAdd(ClaimTerm(dict, RESERVES),
    RatAdd(ClaimTerm(dict, M2),
    RatAdd(ClaimTerm(dict, FEDFUNDS),
    RatAdd(ClaimTerm(dict, DGS3MO), ClaimTerm(dict, DEXUSEU))))))

\* what each series contributes to the entry of date d
ClaimCarriedForward(dict, d) ==
    /\ DOMAIN dict = {s \in indicators : ClaimUpTo(s, d) # {}}
    /\ \A s \in DOMAIN dict :
          dict[s] = ClaimOriented(s, ClaimScaled(s, ClaimLatest(ClaimUpTo(s, d)).Value))

\* C6 as amended: for every history entry of date d, each series contributes the
\* value of its latest observation dated at or before d by comparison of the
\* full date, a series with none is skipped, and the entry's score is 100 times
\* the weighted sum of the oriented scaled values of the weighted series that
\* contributed, not divided by their weight, rounded to one decimal place.
C6_HistoryEntryRounded ==
    TurnDone =>
        /\ ClaimCarriedForward(hist_score_dict, TurnDate)
        /\ Len(score_history) = i
        /\ score_history[i] =
              [Date |-> TurnDate,
               Score |-> Round1(RatMul(ClaimWeightedSum(hist_score_dict), Rat(100, 1)))]

\* C6 as claimed: the entry's score is 100 times the weighted sum itself.
C6_HistoryEntryExact ==
    TurnDone =>
        /\ ClaimCarriedForward(hist_score_dict, TurnDate)
        /\ Len(score_history) = i
        /\ score_history[i].Date = TurnDate
        /\ Rat(score_history[i].Score, 10)
              = RatMul(ClaimWeightedSum(hist_score_dict), Rat(100, 1))

\* an entry carries a value forward from an earlier year while another weighted
\* series of the store has no observation yet
C6_Witness ==
    /\ TurnDone
    /\ \E s \in DOMAIN hist_score_dict \cap ClaimWeighted :
          DtYear(ClaimLatest(ClaimUpTo(s, TurnDate)).Date) < DtYear(TurnDate)
    /\ \E s \in (SeriesUnique(all_data) \cap ClaimWeighted) : s \notin DOMAIN hist_score_dict

----------------------------------------------------------------------------
(* C7 *)

\* C7: a point-in-time request whose month is outside 1..12, or whose year has
\* no observation at all, has every indicator skipped: no observation is used.
C7_InvalidPeriodSkipsAll ==
    /\ Called
    /\ year_dropdown # None
    /\ \/ /\ month_dropdown # None
          /\ (month_dropdown[1] < 1 \/ month_dropdown[1] > MonthsInYear)
       \/ \A r \in all_data : DtYear(r.Date) # year_dropdown[1]
    => DOMAIN score_dict = {}

----------------------------------------------------------------------------
(* C8 *)

\* every weighted series contributed, each the oriented scaled value x
ClaimAllAt(dict, x) == \A s \in ClaimWeighted : s \in DOMAIN dict /\ dict[s] = x

\* C8: if the oriented scaled value of every weighted indicator is 1.0 the score
\* is 100.0, and if it is 0.0 for every one of them the score is 0.0, in a
\* request for a period and in the latest-mode score alike.
C8_AllOnesAllZeros ==
    /\ Called =>
          /\ ClaimAllAt(score_dict, One) => score = Some(1000)
          /\ ClaimAllAt(score_dict, Zero) => score = Some(0)
    /\ liquidity_score # None =>
          /\ ClaimAllAt(ScoreDict(all_data, None, None), One) => liquidity_score = Some(1000)
          /\ ClaimAllAt(ScoreDict(all_data, None, None), Zero) => liquidity_score = Some(0)

\* the latest-mode score is 100.0 with every weighted series at 1.0 (a series of
\* NORMAL polarity at its maximum, an INVERTED one at its minimum), and the
\* request for an earlier month finds every one of them at 0.0 and scores 0.0
C8_Witness ==
    /\ Called
    /\ ClaimAllAt(ScoreDict(all_data, None, None), One)
    /\ liquidity_score = Some(1000)
    /\ Truthy(year_dropdown) /\ Truthy(month_dropdown)
    /\ ClaimAllAt(score_dict, Zero)
    /\ score = Some(0)
    /\ \E r \in ClaimObs(M2) : r.Value = MaxVal /\ \A q \in ClaimObs(M2) : q.Date <= r.Date
    /\ \E r \in ClaimObs(RRP) : r.Value = 0 /\ \A q \in ClaimObs(RRP) : q.Date <= r.Date

----------------------------------------------------------------------------
(* C9 *)

\* the observation the scorer selects for s in the call that has returned; a month
\* of 0 is no month to Python
ClaimSelected(s) ==
    IF ~Truthy(year_dropdown) THEN {ClaimLatest(ClaimObs(s))}
    ELSE IF Truthy(month_dropdown)
         THEN ClaimMonthChoice(s, year_dropdown[1], month_dropdown[1])
         ELSE ClaimYearChoice(s, year_dropdown[1])

\* (v - min) / (max - min) with min and max over every observation of s, those
\* dated after the request too
ClaimFullRange(s, v) ==
    LET lo == SetMin({r.Value : r \in ClaimObs(s)})
        hi == SetMax({r.Value : r \in ClaimObs(s)})
    IN  Rat(v - lo, hi - lo)

ClaimVaries(s) == \E r, q \in ClaimObs(s) : r.Value # q.Value

\* C9: in the scorer and in the history builder alike the scaled value of the
\* selected observation v of a series is (v - min) / (max - min) with min and max
\* over the whole series, observations dated after the requested period or after
\* the entry's date included; the range is never fitted to the observations up to
\* that date.
C9_FullRangeScaling ==
    /\ Called =>
          \A s \in DOMAIN score_dict :
              ClaimVaries(s) =>
                  \A r \in ClaimSelected(s) :
                      score_dict[s] = ClaimOriented(s, ClaimFullRange(s, r.Value))
    /\ TurnDone =>
          \A s \in DOMAIN hist_score_dict :
              ClaimVaries(s) =>
                  hist_score_dict[s] =
                      ClaimOriented(s, ClaimFullRange(s, ClaimLatest(ClaimUpTo(s, TurnDate)).Value))

\* a history entry whose series has, after the entry's date, an observation
\* greater than every one up to it: the value at the date is the greatest so far
\* and is yet scaled strictly between 0 and 1
C9_Witness ==
    /\ TurnDone
    /\ \E s \in DOMAIN hist_score_dict :
          /\ \E q \in ClaimObs(s) :
                /\ q.Date > TurnDate
                /\ \A r \in ClaimUpTo(s, TurnDate) : r.Value < q.Value
          /\ \A r \in ClaimUpTo(s, TurnDate) :
                r.Value <= ClaimLatest(ClaimUpTo(s, TurnDate)).Value
          /\ \E r \in ClaimUpTo(s, TurnDate) :
                r.Value < ClaimLatest(ClaimUpTo(s, TurnDate)).Value
          /\ hist_score_dict[s] \notin {Zero, One}

----------------------------------------------------------------------------
(* C10 *)

ClaimConstant(s) == ClaimObs(s) # {} /\ ~ClaimVaries(s)

\* the weight, in tenths of a score point, that the INVERTED series of dict carry
ClaimInvertedTenths(dict) ==
    (IF RRP \in DOMAIN dict THEN 300 ELSE 0) + (IF FEDFUNDS \in DOMAIN dict THEN 150 ELSE 0)
    + (IF DGS3MO \in DOMAIN dict THEN 70 ELSE 0) + (IF DEXUSEU \in DOMAIN dict THEN 30 ELSE 0)

\* a series of constant value has the scaled value 0, oriented: 0 if NORMAL, 1 if
\* INVERTED
ClaimDegenerate(dict) ==
    \A s \in DOMAIN dict :
        ClaimConstant(s) => dict[s] = (IF s \in ClaimInverted THEN One ELSE Zero)

\* C10: for a series whose observations all have one value the scaled value of
\* every observation is 0, with no fault, so that after orientation a NORMAL
\* series contributes 0 and an INVERTED one its full weight, in the scorer and in
\* the history builder.
C10_ConstantSeries ==
    /\ Called =>
          /\ ClaimDegenerate(score_dict)
          /\ (\A s \in DOMAIN score_dict : ClaimConstant(s)) =>
                 score = Some(ClaimInvertedTenths(score_dict))
    /\ TurnDone =>
          /\ ClaimDegenerate(hist_score_dict)
          /\ (\A s \in DOMAIN hist_score_dict : ClaimConstant(s)) =>
                 score_history[i].Score = ClaimInvertedTenths(hist_score_dict)

\* a call used an INVERTED series with two observations of one value and a
\* weighted NORMAL series of constant value: the score is the former's weight
C10_Witness ==
    /\ Called
    /\ \E s \in DOMAIN score_dict \cap ClaimInverted :
          ClaimConstant(s) /\ Cardinality(ClaimObs(s)) >= 2
    /\ \E s \in (DOMAIN score_dict \cap ClaimWeighted) \ ClaimInverted : ClaimConstant(s)
    /\ score = Some(300)

----------------------------------------------------------------------------
(* C11 *)

\* no series has two observations of one date
ClaimNoTies ==
    \A r, q \in all_data : r.Series = q.Series /\ r.Date = q.Date => r = q

\* every series with an observation at or before d has one in year y in a month
\* at or before m
ClaimCovered(d, y, m) ==
    \A s \in indicators :
        ClaimUpTo(s, d) # {} =>
            \E r \in ClaimObs(s) : DtYear(r.Date) = y /\ DtMonth(r.Date) <= m

\* the entries of the returned history dated in month m of year y
ClaimEntriesOf(y, m) ==
    {k \in DOMAIN liquidity_score_history[1] :
        /\ DtYear(liquidity_score_history[1][k].Date) = y
        /\ DtMonth(liquidity_score_history[1][k].Date) = m}

\* the chart has been drawn for the request the score was computed for
Charted == Called /\ charts = calls

\* C11: the history builder and the scorer agree.  For every history entry
\* (d, s) with d in month m of year y, if no series has two observations of one
\* date and every series with an observation at or before d has one in year y
\* in a month at or before m, the score of a request for (y, m) is s; the chart
\* marks that entry for the request, so the marker shows the score displayed;
\* and the score computed with no year and no month is that of the last history
\* entry.
C11_HistoryAgreesWithScorer ==
    /\ Called /\ Truthy(year_dropdown) /\ Truthy(month_dropdown) /\ ClaimNoTies =>
          \A k \in ClaimEntriesOf(year_dropdown[1], month_dropdown[1]) :
              ClaimCovered(liquidity_score_history[1][k].Date,
                           year_dropdown[1], month_dropdown[1])
                  => score[1] = liquidity_score_history[1][k].Score
    /\ Charted /\ Truthy(year_dropdown) /\ Truthy(month_dropdown) /\ ClaimNoTies =>
          \A k \in ClaimEntriesOf(year_dropdown[1], month_dropdown[1]) :
              /\ latest_point = Some(liquidity_score_history[1][k])
              /\ (ClaimCovered(liquidity_score_history[1][k].Date,
                               year_dropdown[1], month_dropdown[1])
                     => score[1] = latest_point[1].Score)
    /\ liquidity_score_history # None /\ ClaimNoTies =>
          /\ liquidity_score_history[1] # <<>>
          /\ liquidity_score[1]
                = liquidity_score_history[1][Len(liquidity_score_history[1])].Score

\* the agreement without the condition on the year's observations
ClaimAgreesUnconditionally ==
    Called /\ Truthy(year_dropdown) /\ Truthy(month_dropdown) =>
        \A k \in ClaimEntriesOf(year_dropdown[1], month_dropdown[1]) :
            score[1] = liquidity_score_history[1][k].Score

\* a request for a month with a history entry whose condition holds and which
\* the chart marks; a weighted series has no observation in that month and
\* contributes the one of an earlier month of the year, whose scaled value is not
\* that of a later observation of the series; the history holds an entry of
\* another score; the latest-mode score is that of the last entry
C11_Witness ==
    /\ Charted
    /\ Truthy(year_dropdown) /\ Truthy(month_dropdown)
    /\ ClaimNoTies
    /\ latest_point # None
    /\ \E k \in ClaimEntriesOf(year_dropdown[1], month_dropdown[1]) :
          /\ latest_point[1] = liquidity_score_history[1][k]
          /\ ClaimCovered(latest_point[1].Date, year_dropdown[1], month_dropdown[1])
          /\ score[1] = latest_point[1].Score
    /\ \E s \in DOMAIN score_dict \cap ClaimWeighted :
          /\ \A r \in ClaimObs(s) :
                ~(DtYear(r.Date) = year_dropdown[1] /\ DtMonth(r.Date) = month_dropdown[1])
          /\ \E r \in ClaimObs(s) :
                /\ r.Date > latest_point[1].Date
                /\ ClaimScaled(s, r.Value)
                      # ClaimScaled(s, ClaimLatest(ClaimUpTo(s, latest_point[1].Date)).Value)
    /\ \E l \in DOMAIN liquidity_score_history[1] :
          liquidity_score_history[1][l].Score # score[1]
    /\ liquidity_score[1]
          = liquidity_score_history[1][Len(liquidity_score_history[1])].Score

====
